---------------------------- MODULE Spec2Model ----------------------------
(***************************************************************************)
(* Model of numkit.timeseries (src/numkit/timeseries.py):                  *)
(*   autocorrelation_fft, tcorrel, smooth, smoothing_window_length.        *)
(*                                                                         *)
(* The module is Python 2 code (no "from __future__ import division"), so  *)
(* "/" between two ints is floor division (lines 97 and 252).              *)
(*                                                                         *)
(* Floating point numbers are modelled as exact rationals extended with    *)
(* +inf, -inf and nan: [n |-> numerator, d |-> denominator], d >= 0,       *)
(* in lowest terms; d = 0 encodes inf (n = 1), -inf (n = -1), nan (n = 0). *)
(* numpy never raises ZeroDivisionError for float64 operands: division by  *)
(* zero yields inf or nan.                                                 *)
(*                                                                         *)
(* numpy arrays are modelled as views [buf, idx, shape] into a heap of     *)
(* buffers, so that copies, views and in-place updates are distinguished.  *)
(***************************************************************************)
EXTENDS Integers, Sequences, FiniteSets, TLC

----------------------------------------------------------------------------
(* Bounds of the model *)

\* longest caller array
MaxLen == 4
\* largest subsampling stride passed to tcorrel
MaxStep == 2
\* largest window_len argument of smooth
MaxWin == 5
\* and the negative ones down to -MaxNeg
MaxNeg == 2
\* resolutions passed to smoothing_window_length are k/2, k in 1 .. MaxRes
MaxRes == 5

\* sample values the caller's series is drawn from
SampleValues == {-1, 0, 2}

\* threshold of the low-accuracy warning in tcorrel
LowAccuracyLen == 500

----------------------------------------------------------------------------
(* float64 arithmetic, exact *)

Abs(i) == IF i < 0 THEN -i ELSE i
Sign(i) == IF i > 0 THEN 1 ELSE IF i < 0 THEN -1 ELSE 0

RECURSIVE GCD(_, _)
GCD(a, b) == IF b = 0 THEN a ELSE GCD(b, a % b)

Float(n, d) ==
    IF d = 0 THEN [n |-> Sign(n), d |-> 0]
    ELSE LET g == GCD(Abs(n), Abs(d))
         IN  [n |-> (Sign(d) * n) \div g, d |-> Abs(d) \div g]

Zero == [n |-> 0, d |-> 1]
One  == [n |-> 1, d |-> 1]
NaN  == [n |-> 0, d |-> 0]
FromInt(i) == [n |-> i, d |-> 1]

IsNaN(a) == a.d = 0 /\ a.n = 0
IsFinite(a) == a.d > 0

FAdd(a, b) ==
    IF a.d = 0 /\ b.d = 0
    THEN (IF a.n = b.n THEN a ELSE NaN)
    ELSE Float(a.n * b.d + b.n * a.d, a.d * b.d)
FNeg(a) == [n |-> -a.n, d |-> a.d]
FSub(a, b) == FAdd(a, FNeg(b))
FMul(a, b) == Float(a.n * b.n, a.d * b.d)
\* an infinite dividend keeps its sign over a divisor >= 0 and changes it over a
\* finite divisor < 0
FDiv(a, b) ==
    IF a.d = 0 /\ b.d # 0 /\ b.n < 0 THEN [n |-> -a.n, d |-> 0]
    ELSE Float(a.n * b.d, a.d * b.n)

\* a <= 0 as numpy evaluates it: False for nan
FLeqZero(a) == ~IsNaN(a) /\ a.n <= 0
\* Python truth value of a float: only 0.0 is false (nan is true)
Truthy(a) == a # Zero

----------------------------------------------------------------------------
(* sequences of floats *)

RECURSIVE FSum(_)
FSum(s) == IF s = <<>> THEN Zero ELSE FAdd(FSum(SubSeq(s, 1, Len(s) - 1)), s[Len(s)])

\* a sequence given as a function on 1..n, as a tuple of n evaluated elements
Tuple(f, n) == SubSeq(f, 1, n)

Reverse(s) == Tuple([i \in 1..Len(s) |-> s[Len(s) + 1 - i]], Len(s))
Range(n) == Tuple([i \in 1..n |-> i], n)

\* numpy.mean of a rank-1 array: sum / size (nan for an empty array)
Mean(s) == FDiv(FSum(s), FromInt(Len(s)))
\* numpy.var: mean(abs(x - x.mean())**2)
Var(s) ==
    LET m == Mean(s)
    IN  Mean(Tuple([i \in 1..Len(s) |-> FMul(FSub(s[i], m), FSub(s[i], m))], Len(s)))
\* numpy.mean(series*series)
MeanSq(s) == Mean(Tuple([i \in 1..Len(s) |-> FMul(s[i], s[i])], Len(s)))

----------------------------------------------------------------------------
(* Python integer and slice semantics *)

\* Python 2 int / int : floor division (TLA+ \div floors for a positive divisor)
PyIntDiv(a, b) == a \div b

\* seq[start:] for start >= 0 (0-based)
PySliceFrom(s, start) == SubSeq(s, (IF start > Len(s) THEN Len(s) ELSE start) + 1, Len(s))

\* normalised bound of seq[:stop] (0-based, stop may be negative)
PyStop(len, stop) ==
    IF stop < 0 THEN (IF len + stop < 0 THEN 0 ELSE len + stop)
    ELSE (IF stop > len THEN len ELSE stop)
\* seq[:stop]
PySliceTo(s, stop) == SubSeq(s, 1, PyStop(Len(s), stop))
\* seq[start:stop]
PySlice(s, start, stop) ==
    LET lo == PyStop(Len(s), start)
        hi == PyStop(Len(s), stop)
    IN  SubSeq(s, lo + 1, hi)
\* seq[i] for a possibly negative i (0-based); the caller checks the range
PyIndex(s, i) == IF i < 0 THEN s[Len(s) + i + 1] ELSE s[i + 1]

\* seq[start:stop:-1] with 0-based, possibly negative, start and stop
PySliceRev(s, start, stop) ==
    LET len == Len(s)
        st  == IF start < 0 THEN (IF len + start < 0 THEN -1 ELSE len + start)
               ELSE (IF start >= len THEN len - 1 ELSE start)
        sp  == IF stop < 0 THEN (IF len + stop < 0 THEN -1 ELSE len + stop)
               ELSE (IF stop >= len THEN len - 1 ELSE stop)
        cnt == IF st > sp THEN st - sp ELSE 0
    IN  Tuple([i \in 1..cnt |-> s[st - i + 2]], cnt)

\* indices (1-based) selected by seq[::step], step >= 1
StrideIdx(len, step) ==
    Tuple([i \in 1..((len + step - 1) \div step) |-> (i - 1) * step + 1],
          (len + step - 1) \div step)

\* int(f): truncation toward zero; nan and inf raise
PyInt(a) == IF a.n >= 0 THEN a.n \div a.d ELSE -((-a.n) \div a.d)

----------------------------------------------------------------------------
(* numpy arrays: views into a heap of buffers *)

View(buf, idx, shape) == [buf |-> buf, idx |-> idx, shape |-> shape]
Data(h, a) == Tuple([i \in 1..Len(a.idx) |-> h[a.buf][a.idx[i]]], Len(a.idx))

\* a new buffer holding data
Alloc(h, name, data) ==
    [b \in (DOMAIN h) \cup {name} |-> IF b = name THEN data ELSE h[b]]

\* in-place assignment through a view
Store(h, a, data) ==
    [h EXCEPT ![a.buf] =
        Tuple([j \in 1..Len(@) |->
                  IF \E i \in 1..Len(a.idx) : a.idx[i] = j
                  THEN data[CHOOSE i \in 1..Len(a.idx) : a.idx[i] = j]
                  ELSE @[j]], Len(@))]

\* numpy.squeeze: drop the axes of length 1
Squeeze(shape) == SelectSeq(shape, LAMBDA dim : dim # 1)


----------------------------------------------------------------------------
(* scipy.signal.fftconvolve(in1, in2, mode) for rank-1 arguments *)

AllFinite(s) == \A i \in 1..Len(s) : IsFinite(s[i])

\* the full linear convolution, term by term
LinearConv(a, b) ==
    Tuple([k \in 1..(Len(a) + Len(b) - 1) |->
              FSum(Tuple([i \in 1..Len(a) |->
                       IF (k + 1 - i) \in 1..Len(b) THEN FMul(a[i], b[k + 1 - i])
                       ELSE Zero], Len(a)))],
          Len(a) + Len(b) - 1)

\* the same through the Fourier transform, which spreads a nan or inf of the
\* input over every element of the output
ConvFull(a, b) ==
    IF AllFinite(a) /\ AllFinite(b)
    THEN LinearConv(a, b)
    ELSE Tuple([k \in 1..(Len(a) + Len(b) - 1) |-> NaN], Len(a) + Len(b) - 1)

\* scipy.signal.signaltools._centered: the middle newsize elements
Centered(arr, newsize) ==
    LET startind == (Len(arr) - newsize) \div 2
    IN  SubSeq(arr, startind + 1, startind + newsize)

Modes == {"full", "same", "valid"}

FftConvolve(a, b, mode) ==
    LET ret == ConvFull(a, b)
    IN  CASE mode = "full"  -> ret
          [] mode = "same"  -> Centered(ret, Len(a))
          [] mode = "valid" -> Centered(ret, Abs(Len(a) - Len(b)) + 1)

----------------------------------------------------------------------------
(* scipy.signal.fftconvolve(in1, in2, mode) for rank-2 arguments, each a
   sequence of rows of equal length *)

\* the rows of an array of shape <<r, c>> whose elements s are in row-major order
Rows(s, shape) ==
    Tuple([i \in 1..shape[1] |-> SubSeq(s, (i - 1) * shape[2] + 1, i * shape[2])],
          shape[1])

AllFinite2(a) == \A i \in 1..Len(a) : AllFinite(a[i])

\* the full linear convolution over both axes, term by term
LinearConv2(a, b) ==
    Tuple([k \in 1..(Len(a) + Len(b) - 1) |->
              Tuple([l \in 1..(Len(a[1]) + Len(b[1]) - 1) |->
                        FSum(Tuple([i \in 1..Len(a) |->
                            FSum(Tuple([j \in 1..Len(a[1]) |->
                                IF (k + 1 - i) \in 1..Len(b) /\ (l + 1 - j) \in 1..Len(b[1])
                                THEN FMul(a[i][j], b[k + 1 - i][l + 1 - j])
                                ELSE Zero], Len(a[1])))], Len(a)))],
                    Len(a[1]) + Len(b[1]) - 1)],
          Len(a) + Len(b) - 1)

\* the same through the Fourier transform
ConvFull2(a, b) ==
    IF AllFinite2(a) /\ AllFinite2(b)
    THEN LinearConv2(a, b)
    ELSE Tuple([k \in 1..(Len(a) + Len(b) - 1) |->
                   Tuple([l \in 1..(Len(a[1]) + Len(b[1]) - 1) |-> NaN],
                         Len(a[1]) + Len(b[1]) - 1)],
               Len(a) + Len(b) - 1)

\* _centered along both axes
Centered2(arr, rows, cols) ==
    LET mid == Centered(arr, rows)
    IN  Tuple([i \in 1..rows |-> Centered(mid[i], cols)], rows)

FftConvolve2(a, b, mode) ==
    LET ret == ConvFull2(a, b)
    IN  CASE mode = "full"  -> ret
          [] mode = "same"  -> Centered2(ret, Len(a), Len(a[1]))
          [] mode = "valid" -> Centered2(ret, Abs(Len(a) - Len(b)) + 1,
                                         Abs(Len(a[1]) - Len(b[1])) + 1)

----------------------------------------------------------------------------
(* autocorrelation_fft *)

AcfResult(status, value, convolved, half) ==
    [status |-> status, value |-> value, convolved |-> convolved, half |-> half]

\* PrivateCopy without the copies: a squeezed view of the caller's array
PrivateCopyAliased(h, a) ==
    [heap |-> h, arr |-> View(a.buf, a.idx, Squeeze(a.shape))]

\* line 89: numpy.squeeze(series.astype(float)).copy()
PrivateCopy(h, a) ==
    [heap |-> Alloc(h, "series", Data(h, a)),
     arr  |-> View("series", Range(Len(a.idx)), Squeeze(a.shape))]

\* line 93: numpy.squeeze(series.astype(float)); astype allocates a new array
FloatView(h, a) ==
    [heap |-> Alloc(h, "series", Data(h, a)),
     arr  |-> View("series", Range(Len(a.idx)), Squeeze(a.shape))]

\* lines 90-91: mean = series.mean(); series -= mean, on the array c.arr
DeMean(c) ==
    [heap |-> Store(c.heap, c.arr,
                    Tuple([i \in 1..Len(c.arr.idx) |->
                              FSub(Data(c.heap, c.arr)[i], Mean(Data(c.heap, c.arr)))],
                          Len(c.arr.idx))),
     arr  |-> c.arr]

\* CausalHalf with the origin rounded up
CausalHalfRoundedUp(ac) == PySliceFrom(ac, PyIntDiv(Len(ac) + 1, 2))

\* lines 97-98: origin = ac.shape[0]/2; ac = ac[origin:]
CausalHalf(ac) == PySliceFrom(ac, PyIntDiv(Len(ac), 2))

\* PaddingCorrect with the lags counted from 1
PaddingCorrectFromOne(ac, N) ==
    Tuple([i \in 1..Len(ac) |->
              FMul(ac[i], FDiv(FromInt(N), FSub(FromInt(N), FMul(One, FromInt(i)))))],
          Len(ac))

\* line 103: ac *= len(series)/(len(series) - 1.0*numpy.arange(len(ac)))
PaddingCorrect(ac, N) ==
    Tuple([i \in 1..Len(ac) |->
              FMul(ac[i], FDiv(FromInt(N), FSub(FromInt(N), FMul(One, FromInt(i - 1)))))],
          Len(ac))

\* NormDivisor rescaling by the variance whatever normalize says
NormDivisorAlwaysRescaled(ac, series, remove_mean, normalize) ==
    IF remove_mean
    THEN FDiv(IF Truthy(ac[1]) THEN ac[1] ELSE One, Var(series))
    ELSE FDiv(IF Truthy(ac[1]) THEN ac[1] ELSE One, MeanSq(series))

\* lines 105-117: the divisor of the result
NormDivisor(ac, series, remove_mean, normalize) ==
    IF normalize THEN (IF Truthy(ac[1]) THEN ac[1] ELSE One)
    ELSE IF remove_mean
    THEN FDiv(IF Truthy(ac[1]) THEN ac[1] ELSE One, Var(series))
    ELSE FDiv(IF Truthy(ac[1]) THEN ac[1] ELSE One, MeanSq(series))

\* array / scalar
DivideAll(ac, norm) == Tuple([i \in 1..Len(ac) |-> FDiv(ac[i], norm)], Len(ac))

\* lines 105-118, given the causal half as sliced (half) and as corrected (ac)
AcfNormalised(h, s, half, ac, remove_mean, normalize) ==
    [heap |-> h,
     out  |-> AcfResult("ok", DivideAll(ac, NormDivisor(ac, s, remove_mean, normalize)),
                        TRUE, half)]

\* lines 99-103: the length assertion and the padding correction
AcfCorrected(h, s, half, remove_mean, paddingcorrection, normalize, mode) ==
    IF Len(half) > Len(s)
    THEN [heap |-> h, out |-> AcfResult("AssertionError", <<>>, TRUE, half)]
    ELSE AcfNormalised(h, s, half,
                       IF paddingcorrection /\ mode # "valid"
                       THEN PaddingCorrect(half, Len(s)) ELSE half,
                       remove_mean, normalize)

\* lines 95-98, on the data s of the rank-1 series
AcfConvolved(h, s, remove_mean, paddingcorrection, normalize, mode) ==
    AcfCorrected(h, s, CausalHalf(FftConvolve(s, Reverse(s), mode)),
                 remove_mean, paddingcorrection, normalize, mode)

\* the single column of an array of shape <<m, 1>>
Column(rows) == Tuple([i \in 1..Len(rows) |-> rows[i][1]], Len(rows))

\* lines 105-118 for an array ac of one column, given as that column. ac[0] is
\* then a view of the first row, not a float: where it is true, norm is that
\* view, and the division norm /= ... of line 113 or 115 is made in place, so
\* that ac[0] holds the divided value when ac/norm is computed on line 118.
\* Where ac[0] is false norm is the float 1.0 and ac is left as it is.
AcfNormalised2(h, s, half, ac, remove_mean, normalize) ==
    [heap |-> h,
     out  |-> AcfResult("ok",
                 DivideAll(IF Truthy(ac[1]) /\ ~normalize
                           THEN <<NormDivisor(ac, s, remove_mean, normalize)>> \o Tail(ac)
                           ELSE ac,
                           NormDivisor(ac, s, remove_mean, normalize)),
                 TRUE, half)]

\* lines 99-118 for a series that the squeeze leaves rank 2: s its elements,
\* len its number of rows, half the rows kept of the convolution.
\* Line 103 multiplies the m rows of k columns in place by a factor of shape
\* (m,), which broadcasts only for m = 1 or k = m; line 105 takes the truth
\* value of the row ac[0], which is ambiguous for more than one element.
AcfCorrected2(h, s, len, half, remove_mean, paddingcorrection, normalize, mode) ==
    IF Len(half) > len
    THEN [heap |-> h, out |-> AcfResult("AssertionError", <<>>, TRUE, half)]
    ELSE IF paddingcorrection /\ mode # "valid"
            /\ Len(half) # 1 /\ Len(half[1]) # Len(half)
    THEN [heap |-> h, out |-> AcfResult("ValueError", <<>>, TRUE, half)]
    ELSE IF Len(half[1]) # 1
    THEN [heap |-> h, out |-> AcfResult("ValueError", <<>>, TRUE, half)]
    ELSE AcfNormalised2(h, s, half,
                        IF paddingcorrection /\ mode # "valid"
                        THEN PaddingCorrect(Column(half), len) ELSE Column(half),
                        remove_mean, normalize)

\* lines 95-98, on the rows of the rank-2 series; series[::-1,...] reverses the
\* order of the rows and ac[origin:] keeps the rows from origin on
AcfConvolved2(h, s, rows, remove_mean, paddingcorrection, normalize, mode) ==
    AcfCorrected2(h, s, Len(rows), CausalHalf(FftConvolve2(rows, Reverse(rows), mode)),
                  remove_mean, paddingcorrection, normalize, mode)

\* line 95 on the squeezed array: series[::-1,...] raises IndexError for a 0-d
\* array; a rank-1 and a rank-2 array are convolved over all their axes
AcfPrepared(c, remove_mean, paddingcorrection, normalize, mode) ==
    IF Len(c.arr.shape) = 0
    THEN [heap |-> c.heap, out |-> AcfResult("IndexError", <<>>, FALSE, <<>>)]
    ELSE IF Len(c.arr.shape) = 1
    THEN AcfConvolved(c.heap, Data(c.heap, c.arr),
                      remove_mean, paddingcorrection, normalize, mode)
    ELSE AcfConvolved2(c.heap, Data(c.heap, c.arr),
                       Rows(Data(c.heap, c.arr), c.arr.shape),
                       remove_mean, paddingcorrection, normalize, mode)

\* lines 82-118; returns the heap after the call and the outcome
AutocorrelationFft(h, series, remove_mean, paddingcorrection, normalize, mode) ==
    IF Len(series.shape) > 2
    THEN [heap |-> h, out |-> AcfResult("TypeError", <<>>, FALSE, <<>>)]
    ELSE AcfPrepared(IF remove_mean THEN DeMean(PrivateCopy(h, series))
                     ELSE FloatView(h, series),
                     remove_mean, paddingcorrection, normalize, mode)

----------------------------------------------------------------------------
(* tcorrel *)

TcorrelResult(status, warned, i0, t0, int_y, int_x, tc, sigma_sq) ==
    [status |-> status, warned |-> warned, i0 |-> i0, t0 |-> t0,
     int_y |-> int_y, int_x |-> int_x, tc |-> tc, sigma_sq |-> sigma_sq]

\* the outcome of a call that raised
TcorrelRaised(status, warned) ==
    TcorrelResult(status, warned, 0, Zero, <<>>, <<>>, Zero, Zero)

\* lines 156-157: a[::nstep], a view of every nstep-th element
Subsample(a, nstep) ==
    LET pick == StrideIdx(Len(a.idx), nstep)
    IN  View(a.buf, Tuple([i \in 1..Len(pick) |-> a.idx[pick[i]]], Len(pick)),
             <<Len(pick)>>)

\* FirstRoot falling back to the first index instead of the last
FirstRootFallbackFirst(acf) ==
    LET roots == {i \in 0..(Len(acf) - 1) : FLeqZero(acf[i + 1])}
    IN  IF roots = {} THEN 0
        ELSE CHOOSE i \in roots : \A j \in roots : i <= j

\* lines 165-168: numpy.where(acf <= 0)[0][0], or -1 when there is none
FirstRoot(acf) ==
    LET roots == {i \in 0..(Len(acf) - 1) : FLeqZero(acf[i + 1])}
    IN  IF roots = {} THEN -1
        ELSE CHOOSE i \in roots : \A j \in roots : i <= j

\* scipy.integrate.simps: one term of Simpson's rule for unequal spacings, over
\* the samples k, k+1, k+2 (0-based)
SimpsTerm(y, x, k) ==
    LET h0      == FSub(x[k + 2], x[k + 1])
        h1      == FSub(x[k + 3], x[k + 2])
        hsum    == FAdd(h0, h1)
        hprod   == FMul(h0, h1)
        h0divh1 == FDiv(h0, h1)
    IN  FMul(FDiv(hsum, FromInt(6)),
             FAdd(FAdd(FMul(y[k + 1], FSub(FromInt(2), FDiv(One, h0divh1))),
                       FDiv(FMul(FMul(y[k + 2], hsum), hsum), hprod)),
                  FMul(y[k + 3], FSub(FromInt(2), h0divh1))))

\* scipy.integrate._basic_simps(y, start, stop, x): the terms at k = start,
\* start+2, ... below stop that have three samples
BasicSimps(y, x, start, stop) ==
    LET lim == IF PyStop(Len(y), stop) < Len(y) - 2 THEN PyStop(Len(y), stop)
               ELSE Len(y) - 2
        cnt == IF lim > start THEN (lim - start + 1) \div 2 ELSE 0
    IN  FSum(Tuple([i \in 1..cnt |-> SimpsTerm(y, x, start + 2 * (i - 1))], cnt))

\* 0.5 * (x[j] - x[i]) * (y[j] + y[i]) for 1-based i, j
Trapezoid(y, x, i, j) ==
    FMul(FMul(Float(1, 2), FSub(x[j], x[i])), FAdd(y[j], y[i]))

\* scipy.integrate.simps(y, x=x) with even='avg': for an even number N of
\* samples the mean of Simpson's rule on the first N-1 samples plus a trapezoid
\* on the last interval, and of a trapezoid on the first interval plus Simpson's
\* rule on the last N-1 samples; for N = 0 the last sample x[-1] does not exist
Simps(y, x) ==
    IF Len(y) = 0 THEN [status |-> "IndexError", value |-> Zero]
    ELSE IF Len(y) % 2 = 0
    THEN [status |-> "ok",
          value  |-> FAdd(FDiv(FAdd(BasicSimps(y, x, 0, Len(y) - 3),
                                    BasicSimps(y, x, 1, Len(y) - 2)),
                               FromInt(2)),
                          FDiv(FAdd(Trapezoid(y, x, Len(y) - 1, Len(y)),
                                    Trapezoid(y, x, 1, 2)),
                               FromInt(2)))]
    ELSE [status |-> "ok", value |-> BasicSimps(y, x, 0, Len(y) - 2)]

\* line 174 without the root: 2*tc*acf[0]/(x[-1] - x[0]); sigma is its
\* numpy.sqrt, nan where this is negative or nan
SigmaSquared(tc, acf0, span) == FDiv(FMul(FMul(FromInt(2), tc), acf0), span)

\* lines 172-176, given the arguments of simps and its outcome
TcorrelSigma(h, warned, i0, t0, int_y, int_x, tc, acf0, span) ==
    IF tc.status # "ok"
    THEN [heap |-> h, out |-> TcorrelRaised(tc.status, warned)]
    ELSE [heap |-> h,
          out  |-> TcorrelResult("ok", warned, i0, t0, int_y, int_x, tc.value,
                                 SigmaSquared(tc.value, acf0, span))]

\* line 172, given the integrand and the abscissa handed to simps
TcorrelSimps(h, warned, i0, t0, int_y, int_x, acf0, span) ==
    TcorrelSigma(h, warned, i0, t0, int_y, int_x, Simps(int_y, int_x), acf0, span)

\* lines 169-172, given the ACF, the subsampled abscissa xd, the whole
\* abscissa xall and the root index
TcorrelIntegral(h, warned, acf, xd, xall, i0) ==
    TcorrelSimps(h, warned, i0, PyIndex(xd, i0),
                 DivideAll(PySliceTo(acf, i0), IF Truthy(acf[1]) THEN acf[1] ELSE One),
                 PySliceTo(xd, i0),
                 acf[1], FSub(PyIndex(xall, -1), PyIndex(xall, 0)))

\* lines 164-168, given the outcome r of autocorrelation_fft
TcorrelRoot(x, xs, warned, r) ==
    IF r.out.status # "ok"
    THEN [heap |-> r.heap, out |-> TcorrelRaised(r.out.status, warned)]
    ELSE TcorrelIntegral(r.heap, warned, r.out.value, Data(r.heap, xs),
                         Data(r.heap, x), FirstRoot(r.out.value))

\* lines 158-164, on the subsampled views
TcorrelSampled(h, x, xs, ys) ==
    TcorrelRoot(x, xs, Len(ys.idx) < LowAccuracyLen,
                AutocorrelationFft(h, ys, TRUE, TRUE, FALSE, "full"))

\* lines 154-176
Tcorrel(h, x, y, nstep) ==
    IF x.shape # y.shape
    THEN [heap |-> h, out |-> TcorrelRaised("TypeError", FALSE)]
    ELSE TcorrelSampled(h, x, Subsample(x, nstep), Subsample(y, nstep))

----------------------------------------------------------------------------
(* smooth *)

\* line 183: the default of window_len
DefaultWindowLen == 11

\* line 225
windows == {"flat", "hanning", "hamming", "bartlett", "blackman"}

NamedWindow(name) == [kind |-> "name", name |-> name, w |-> <<>>]
ArrayWindow(w) == [kind |-> "ndarray", name |-> "", w |-> w]

\* cos(2 pi k / m) where it is rational
CosTurn(k, m) ==
    CASE m = 1 -> One
      [] m = 2 -> <<One, FromInt(-1)>>[(k % 2) + 1]
      [] m = 4 -> <<One, Zero, FromInt(-1), Zero>>[(k % 4) + 1]
      [] m = 6 -> <<One, Float(1, 2), Float(-1, 2), FromInt(-1), Float(-1, 2),
                    Float(1, 2)>>[(k % 6) + 1]

\* numpy.hanning, numpy.hamming, numpy.bartlett, numpy.blackman, and
\* numpy.ones for 'flat' (lines 235-239), for M >= 0
WindowWeights(name, M) ==
    IF name = "flat" THEN Tuple([i \in 1..M |-> One], M)
    ELSE IF M < 1 THEN <<>>
    ELSE IF M = 1 THEN <<One>>
    ELSE Tuple([i \in 1..M |->
           LET n == i - 1
           IN  CASE name = "hanning" ->
                      FSub(Float(1, 2), FMul(Float(1, 2), CosTurn(n, M - 1)))
                 [] name = "hamming" ->
                      FSub(Float(54, 100), FMul(Float(46, 100), CosTurn(n, M - 1)))
                 [] name = "blackman" ->
                      FAdd(FSub(Float(42, 100), FMul(Float(1, 2), CosTurn(n, M - 1))),
                           FMul(Float(8, 100), CosTurn(2 * n, M - 1)))
                 [] name = "bartlett" ->
                      IF 2 * n <= M - 1 THEN Float(2 * n, M - 1)
                      ELSE FSub(FromInt(2), Float(2 * n, M - 1))], M)

\* numpy.convolve(a, v, mode='valid')
ConvolveValid(a, v) ==
    LET lo == IF Len(a) < Len(v) THEN Len(a) ELSE Len(v)
        hi == IF Len(a) < Len(v) THEN Len(v) ELSE Len(a)
    IN  SubSeq(LinearConv(a, v), lo, hi)

SmoothResult(status, why, alias, value) ==
    [status |-> status, why |-> why, alias |-> alias, value |-> value]

\* SmoothBody trimming one sample too many at the front
SmoothBodyOverTrimmed(xd, window_len, w) ==
    LET s  == PySliceRev(xd, window_len - 1, 0) \o xd \o PySliceRev(xd, -1, -window_len)
        ws == FSum(w)
        y  == ConvolveValid(DivideAll(w, ws), s)
    IN  PySlice(y, PyIntDiv(window_len + 1, 2), PyIntDiv(-(window_len - 1), 2))

\* lines 250-252: reflect, convolve with the normalised window, trim
SmoothBody(xd, window_len, w) ==
    LET s  == PySliceRev(xd, window_len - 1, 0) \o xd \o PySliceRev(xd, -1, -window_len)
        ws == FSum(w)
        y  == ConvolveValid(DivideAll(w, ws), s)
    IN  PySlice(y, PyIntDiv(window_len - 1, 2), PyIntDiv(-(window_len - 1), 2))

\* SmoothValidate with the short-window return ahead of the parity check
SmoothValidateShortFirst(ndim, size, window_len) ==
    IF ndim # 1 THEN "ndim"
    ELSE IF size < window_len THEN "size"
    ELSE IF window_len < 3 THEN "noop"
    ELSE IF window_len % 2 = 0 THEN "even"
    ELSE ""

\* lines 241-248: the checks made once the window exists; "" when all pass
SmoothValidate(ndim, size, window_len) ==
    IF ndim # 1 THEN "ndim"
    ELSE IF size < window_len THEN "size"
    ELSE IF window_len % 2 = 0 THEN "even"
    ELSE IF window_len < 3 THEN "noop"
    ELSE ""

\* lines 225-252
Smooth(h, x, window_len_arg, window) ==
    LET window_len == IF window.kind = "ndarray" THEN Len(window.w) ELSE window_len_arg
    IN  IF window.kind = "name" /\ window.name \notin windows
        THEN SmoothResult("ValueError", "window", "none", <<>>)
        ELSE IF window.kind = "name" /\ window.name = "flat" /\ window_len < 0
        THEN \* numpy.ones(window_len): negative dimensions are not allowed
             SmoothResult("ValueError", "negative", "none", <<>>)
        ELSE
          LET verdict == SmoothValidate(Len(x.shape), Len(x.idx), window_len)
          IN  CASE verdict = "noop" -> SmoothResult("ok", "", x.buf, Data(h, x))
                [] verdict = ""     ->
                     SmoothResult("ok", "", "none",
                         SmoothBody(Data(h, x), window_len,
                                    IF window.kind = "ndarray" THEN window.w
                                    ELSE WindowWeights(window.name, window_len)))
                [] OTHER -> SmoothResult("ValueError", verdict, "none", <<>>)

----------------------------------------------------------------------------
(* smoothing_window_length *)

\* numpy.diff
Diff(t) == Tuple([i \in 1..(Len(t) - 1) |-> FSub(t[i + 1], t[i])], Len(t) - 1)

\* MakeOdd without the increment
MakeOddForgotten(N) == N

\* lines 271-272
MakeOdd(N) == IF N % 2 = 0 THEN N + 1 ELSE N

\* lines 269-273; int() raises ValueError for nan and OverflowError for inf
SmoothingWindowLength(resolution, t) ==
    LET dt == Mean(Diff(t))
        q  == FDiv(resolution, dt)
    IN  IF IsNaN(q) THEN [status |-> "ValueError", value |-> 0]
        ELSE IF ~IsFinite(q) THEN [status |-> "OverflowError", value |-> 0]
        ELSE [status |-> "ok", value |-> MakeOdd(PyInt(q))]

----------------------------------------------------------------------------
(* State *)

VARIABLES
    mem,      \* the caller's buffers: mem.x (abscissa) and mem.y (series)
    yshape,   \* shape of the caller's series array
    call,     \* the last call made and its arguments
    ret       \* its outcome

vars == <<mem, yshape, call, ret>>

CallerBuffers == {"x", "y"}
\* the arrays the caller passes in
CallerX == View("x", Range(Len(mem.x)), <<Len(mem.x)>>)
CallerY == View("y", Range(Len(mem.y)), yshape)

\* what the caller still holds after a call
CallerHeap(h) == [b \in CallerBuffers |-> h[b]]

\* shapes with n elements: rank 0 to rank 3, every rank-2 shape included
Shapes(n) ==
    {<<n>>, <<1, 1, n>>}
      \cup {<<r, n \div r>> : r \in {q \in 1..n : n % q = 0}}
      \cup (IF n = 1 THEN {<<>>} ELSE {})

\* a strictly increasing abscissa of n points
Abscissa(n, g1, g2) ==
    Tuple([i \in 1..n |-> FromInt(IF i = 1 THEN 0 ELSE g1 + (i - 2) * g2)], n)

\* gap patterns of the abscissa: equidistant, and a first gap of 1 followed by 2s
GapPatterns == {<<1, 1>>, <<1, 2>>}

\* rank-1 series over values with each gap pattern; series of the other ranks
\* over the smaller set fewer, with the equidistant abscissa
InitWith(values, fewer) ==
    \E n \in 1..MaxLen :
      \E ydata \in [1..n -> values], g \in GapPatterns :
        \E shape \in (IF g = <<1, 1>> /\ ydata \in [1..n -> fewer]
                      THEN Shapes(n) ELSE {<<n>>}) :
          /\ mem = [x |-> Abscissa(n, g[1], g[2]), y |-> Tuple(ydata, n)]
          /\ yshape = shape
          /\ call = [op |-> "none"]
          /\ ret = [status |-> "none"]

Init == InitWith({FromInt(v) : v \in SampleValues}, {Zero, FromInt(2)})

\* the same with series that may hold nan (a missing sample)
InitNaN == InitWith({Zero, FromInt(2), NaN}, {Zero, NaN})

Idle == call.op = "none"

CallAutocorrelationFft ==
    /\ Idle
    /\ \E remove_mean \in BOOLEAN, paddingcorrection \in BOOLEAN,
          normalize \in BOOLEAN, mode \in Modes :
         LET r == AutocorrelationFft(mem, CallerY, remove_mean, paddingcorrection,
                                     normalize, mode)
         IN  /\ mem' = CallerHeap(r.heap)
             /\ call' = [op |-> "autocorrelation_fft", remove_mean |-> remove_mean,
                         paddingcorrection |-> paddingcorrection,
                         normalize |-> normalize, mode |-> mode]
             /\ ret' = r.out
             /\ UNCHANGED yshape

CallTcorrel ==
    /\ Idle
    /\ \E nstep \in 1..MaxStep :
         LET r == Tcorrel(mem, CallerX, CallerY, nstep)
         IN  /\ mem' = CallerHeap(r.heap)
             /\ call' = [op |-> "tcorrel", nstep |-> nstep]
             /\ ret' = r.out
             /\ UNCHANGED yshape

\* the window arguments tried: every supported name, an unsupported one, and
\* arrays of weights
WindowArgs ==
    {NamedWindow(nm) : nm \in windows \cup {"boxcar"}}
      \cup {ArrayWindow(w) : w \in {<<One>>, <<One, One>>, <<One, FromInt(2), One>>}}

CallSmooth ==
    /\ Idle
    /\ \E window \in WindowArgs :
        \E window_len \in (IF window.kind = "ndarray" THEN {DefaultWindowLen}
                            ELSE (-MaxNeg)..MaxWin) :
         /\ mem' = mem
         /\ call' = [op |-> "smooth", window_len |-> window_len, window |-> window]
         /\ ret' = Smooth(mem, CallerY, window_len, window)
         /\ UNCHANGED yshape

CallSmoothingWindowLength ==
    /\ Idle
    /\ \E k \in 1..MaxRes :
         /\ call' = [op |-> "smoothing_window_length", resolution |-> Float(k, 2)]
         /\ ret' = SmoothingWindowLength(Float(k, 2), Data(mem, CallerX))
         /\ UNCHANGED <<mem, yshape>>

\* the caller takes the outcome and is ready for its next call
Return ==
    /\ ~Idle
    /\ call' = [op |-> "none"]
    /\ ret' = [status |-> "none"]
    /\ UNCHANGED <<mem, yshape>>

Next ==
    \/ CallAutocorrelationFft
    \/ CallTcorrel
    \/ CallSmooth
    \/ CallSmoothingWindowLength
    \/ Return

Spec == Init /\ [][Next]_vars

\* callers whose series may hold nan
SpecNaN == InitNaN /\ [][Next]_vars

----------------------------------------------------------------------------
(* Properties *)

AcfCall == call.op = "autocorrelation_fft"
TcorrelCall == call.op = "tcorrel"
SmoothCall == call.op = "smooth"
WindowLengthCall == call.op = "smoothing_window_length"

Rank1 == Len(yshape) = 1
N == Len(mem.y)

Square(a) == FMul(a, a)
SumSquares(s) == FSum(Tuple([i \in 1..Len(s) |-> Square(s[i])], Len(s)))

\* mean((s - mean(s))^2) = (n * sum(s^2) - sum(s)^2) / n^2
PopulationVariance(s) ==
    FDiv(FSub(FMul(FromInt(Len(s)), SumSquares(s)), Square(FSum(s))),
         FromInt(Len(s) * Len(s)))

\* sum of squares of the series as it is convolved
ZeroLag(s, remove_mean) ==
    IF remove_mean
    THEN FSub(SumSquares(s), FDiv(Square(FSum(s)), FromInt(Len(s))))
    ELSE SumSquares(s)

\* C1: with the default options, for every rank-1 series of length >= 1,
\* autocorrelation_fft returns a sequence whose element 0 is the population
\* variance of the series.
C1_VarianceAtLagZero ==
    (AcfCall /\ Rank1 /\ call.remove_mean /\ call.paddingcorrection
       /\ ~call.normalize /\ call.mode = "full")
    => (ret.status = "ok" /\ ret.value[1] = PopulationVariance(mem.y))

\* the outcome of the call of this state with normalize=False
Unnormalized ==
    AutocorrelationFft(mem, CallerY, call.remove_mean, call.paddingcorrection,
                       FALSE, call.mode).out

\* C2 as stated: for every rank-1 series, the result with normalize=True is,
\* element by element, the result with normalize=False divided by its own
\* element 0 (the two calls failing alike counts as agreement).
C2_NormalizedIsRatio ==
    (AcfCall /\ Rank1 /\ call.normalize)
    => LET u == Unnormalized
       IN  /\ ret.status = u.status
           /\ ret.status = "ok" =>
                /\ Len(ret.value) = Len(u.value)
                /\ \A i \in 1..Len(ret.value) :
                     ret.value[i] = FDiv(u.value[i], u.value[1])

\* C2 amended: the same for every rank-1 series whose unnormalized lag-0 value
\* is not zero; when it is zero the divisor falls back to 1.0 and the
\* normalized result is the unnormalized one (all zeros).
C2_NormalizedIsRatioNonzero ==
    (AcfCall /\ Rank1 /\ call.normalize)
    => LET u == Unnormalized
       IN  /\ ret.status = u.status
           /\ ret.status = "ok" =>
                /\ Len(ret.value) = Len(u.value)
                /\ \A i \in 1..Len(ret.value) :
                     ret.value[i] =
                       IF u.value[1] # Zero THEN FDiv(u.value[i], u.value[1])
                       ELSE u.value[i]

C2_Witness ==
    /\ AcfCall /\ Rank1 /\ call.normalize /\ ret.status = "ok"
    /\ Len(ret.value) >= 3
    /\ Unnormalized.value[1] \notin {Zero, One}
    /\ ret.value[2] # Zero

\* C3: in every mode the causal half kept after the convolution is no longer
\* than the (squeezed) series, so the length assertion never fails, and for a
\* series of N elements along one axis its element 0 is the zero-lag term
\* sum(s[j]^2).
C3_CausalHalf ==
    AcfCall
    => /\ ret.status # "AssertionError"
       /\ ret.convolved =>
            /\ Len(ret.half) >= 1
            /\ Len(ret.half) <= Squeeze(yshape)[1]
            /\ Len(Squeeze(yshape)) = 1 =>
                 /\ Len(ret.half) <= N
                 /\ ret.half[1] = ZeroLag(mem.y, call.remove_mean)

C3_Witness ==
    /\ AcfCall /\ Rank1 /\ ret.status = "ok" /\ call.mode = "same"
    /\ N = 4 /\ Len(ret.half) = 2
    /\ ret.half[1] # Zero /\ ret.half[2] # Zero /\ ret.half[2] # ret.half[1]

\* C4: autocorrelation_fft fails with an error, before any convolution is
\* computed, for every series whose rank is not 1.
C4_RankErrors ==
    (AcfCall /\ ~Rank1)
    => (ret.status \in {"TypeError", "IndexError", "ValueError"} /\ ~ret.convolved)

SupportedName == call.window.kind = "name" /\ call.window.name \in windows

\* C5 as stated: for every rank-1 x and every integer window length below 3
\* with a supported window name, smooth returns x unchanged, without error.
C5_ShortWindowNoOp ==
    (SmoothCall /\ Rank1 /\ SupportedName /\ call.window_len < 3)
    => (ret.status = "ok" /\ ret.alias = "y" /\ ret.value = mem.y)

\* C5 amended: for a rank-1 x of length >= 1 and a supported window name,
\* smooth returns x itself for window length 1, and for a negative odd window
\* length with a window other than 'flat'; every even window length below 3,
\* and every negative one with 'flat', raises ValueError.
C5_ShortWindow ==
    (SmoothCall /\ Rank1 /\ SupportedName /\ call.window_len < 3)
    => IF call.window_len % 2 = 0
            \/ (call.window_len < 0 /\ call.window.name = "flat")
       THEN ret.status = "ValueError"
       ELSE ret.status = "ok" /\ ret.alias = "y" /\ ret.value = mem.y

C5_Witness ==
    /\ SmoothCall /\ Rank1 /\ SupportedName /\ call.window_len = 1
    /\ ret.status = "ok" /\ ret.alias = "y" /\ N >= 2

\* the window length smooth works with
EffectiveWindowLen ==
    IF call.window.kind = "ndarray" THEN Len(call.window.w) ELSE call.window_len

\* C6: for every rank-1 x of length n and every odd window length w >= 3
\* with n >= w, smooth returns a sequence of exactly n elements.
C6_SmoothKeepsLength ==
    (SmoothCall /\ Rank1 /\ (call.window.kind = "name" => SupportedName)
       /\ EffectiveWindowLen >= 3 /\ EffectiveWindowLen % 2 = 1
       /\ N >= EffectiveWindowLen)
    => (ret.status = "ok" /\ ret.alias = "none" /\ Len(ret.value) = N)

C6_Witness ==
    /\ SmoothCall /\ Rank1 /\ ret.status = "ok"
    /\ EffectiveWindowLen = 3 /\ N = 4 /\ Len(ret.value) = 4
    /\ ret.value # mem.y

\* C7 as stated: smoothing_window_length returns an odd integer >= 1 and
\* never fails, also for a t of a single element.
C7_OddWindowLength ==
    WindowLengthCall
    => (ret.status = "ok" /\ ret.value % 2 = 1 /\ ret.value >= 1)

\* C7 amended: for every resolution > 0 and every strictly increasing t of at
\* least two elements, smoothing_window_length returns an odd integer >= 1;
\* for a t of a single element it raises ValueError.
C7_OddWindowLengthTwoPoints ==
    WindowLengthCall
    => IF Len(mem.x) >= 2
       THEN ret.status = "ok" /\ ret.value % 2 = 1 /\ ret.value >= 1
       ELSE ret.status = "ValueError"

\* a resolution of twice the spacing: the quotient 2 is even and is raised to 3
C7_Witness ==
    /\ WindowLengthCall /\ Len(mem.x) >= 2 /\ ret.status = "ok"
    /\ call.resolution = FromInt(2) /\ ret.value = 3

\* every nstep-th element of s, from the first
EveryNth(s, nstep) ==
    Tuple([i \in 1..((Len(s) + nstep - 1) \div nstep) |-> s[(i - 1) * nstep + 1]],
          (Len(s) + nstep - 1) \div nstep)

\* the ACF tcorrel computes in this state
SubsampledAcf ==
    AutocorrelationFft(mem, Subsample(CallerY, call.nstep), TRUE, TRUE, FALSE,
                       "full").out.value

\* 1-based position of the first ACF value <= 0, or of the last value if none
RootPosition(acf) ==
    IF \E i \in 1..Len(acf) : FLeqZero(acf[i])
    THEN CHOOSE i \in 1..Len(acf) :
           FLeqZero(acf[i]) /\ \A j \in 1..(i - 1) : ~FLeqZero(acf[j])
    ELSE Len(acf)

\* C8: t0 is the subsampled abscissa at the first index where the ACF of the
\* subsampled y is <= 0; without such an index it is the last subsampled
\* abscissa; the integration runs over the ACF (divided by its lag-0 value
\* unless that is zero) and the abscissa before that index. tcorrel returns
\* this whenever the index found is not 0, the fallback included.
C8_FirstRoot ==
    TcorrelCall
    => LET xs  == EveryNth(mem.x, call.nstep)
           acf == SubsampledAcf
           pos == RootPosition(acf)
       IN  /\ (Rank1 /\ pos >= 2) => ret.status = "ok"
           /\ ret.status = "ok" =>
                /\ ret.t0 = xs[pos]
                /\ ret.int_x = SubSeq(xs, 1, pos - 1)
                /\ Len(ret.int_y) = pos - 1
                /\ \A i \in 1..(pos - 1) :
                     ret.int_y[i] = FDiv(acf[i], IF acf[1] = Zero THEN One ELSE acf[1])
                /\ ret.tc = Simps(ret.int_y, ret.int_x).value

\* an ACF without a value <= 0
C8_Witness ==
    /\ TcorrelCall /\ ret.status = "ok" /\ call.nstep = 2
    /\ Len(mem.x) >= 4
    /\ \A i \in 1..Len(SubsampledAcf) : ~FLeqZero(SubsampledAcf[i])
    /\ ret.t0 = EveryNth(mem.x, 2)[Len(EveryNth(mem.x, 2))]
    /\ ret.t0 # mem.x[Len(mem.x)]

\* C9: no call changes the contents of an array the caller passed in.
C9_InputsUnchanged == [][mem' = mem]_vars

\* de-meaning changed the values the convolution worked on
C9_Witness ==
    /\ AcfCall /\ call.remove_mean /\ ret.status = "ok"
    /\ FSum(mem.y) # Zero
    /\ ret.half[1] # SumSquares(mem.y)

\* the outcome of the call of this state with paddingcorrection=False
Uncorrected ==
    AutocorrelationFft(mem, CallerY, call.remove_mean, FALSE, call.normalize,
                       call.mode).out

\* C10: in modes 'full' and 'same' the result with paddingcorrection=True is,
\* at every lag i, N/(N-i) times the result with paddingcorrection=False; in
\* mode 'valid' the two results are identical.
C10_PaddingFactor ==
    (AcfCall /\ Rank1 /\ call.paddingcorrection /\ ret.status = "ok")
    => LET u == Uncorrected
       IN  /\ u.status = "ok"
           /\ Len(ret.value) = Len(u.value)
           /\ \A i \in 1..Len(ret.value) :
                ret.value[i] =
                  IF call.mode = "valid" THEN u.value[i]
                  ELSE FMul(Float(N, N - (i - 1)), u.value[i])

C10_Witness ==
    /\ AcfCall /\ Rank1 /\ call.paddingcorrection /\ ret.status = "ok"
    /\ call.mode = "full" /\ N >= 3
    /\ ret.value[3] # Zero /\ ret.value[3] # Uncorrected.value[3]

============================================================================
